---- MODULE Spec2Model ----
(***************************************************************************)
(* datasette-socrata: the import-socrata request handler and the           *)
(* background import task it starts (src/datasette_socrata/__init__.py).   *)
(*                                                                         *)
(* Strings that the code takes apart (dataset ids, path elements, table    *)
(* names) are sequences of one-character strings; every other string is a  *)
(* TLA+ string.  A database is the committed content that a reader on      *)
(* another connection sees: every execute_write_fn call runs on the        *)
(* database's single write thread and is one step of the model.            *)
(***************************************************************************)
EXTENDS Integers, Sequences, FiniteSets, TLC

\* ------------------------------------------------------------------ bounds

\* Number of POST requests the model lets the client send.
MaxRequests == 2

\* Number of data lines a CSV stream delivers at most.
MaxLines == 3

\* The batch threshold of run_the_import (100 in the code, line 268), scaled
\* down so that full batches, several batches and partial batches all occur.
BatchSize == 2

\* Number of rows the type tracker is shown when it is run on its own.
MaxObserved == 3

\* ---------------------------------------------------------------- constants

\* The looks the handler's polling loop takes before it gives up (10 in the
\* code, line 297), scaled down.
PollLimit == 2

NULL == "NULL"

\* None, where the value is otherwise an integer.
UNKNOWN == -1

\* ------------------------------------------------------------------ strings

Range(s) == {s[i] : i \in 1..Len(s)}

\* The characters \w matches, as far as the model's strings use them.
WordChars == {"2", "4", "8", "u", "j", "d", "v", "a", "b", "c", "r", "o", "w", "s", "_"}

\* is_valid_id = re.compile(r"^\w{4}\-\w{4}$").match
is_valid_id(s) ==
    /\ Len(s) = 9
    /\ s[5] = "-"
    /\ \A i \in {1, 2, 3, 4, 6, 7, 8, 9} : s[i] \in WordChars

\* str.replace(old, new) for one-character old and new.
Replace(s, old, new) == [i \in 1..Len(s) |-> IF s[i] = old THEN new ELSE s[i]]

IdEdmonton == <<"2", "4", "u", "j", "-", "d", "j", "8", "v">>
IdOther    == <<"a", "b", "_", "c", "-", "d", "j", "8", "v">>

\* The dataset ids the model's URLs name.
Ids == {IdEdmonton, IdOther}

\* table_name = "socrata_" + id.replace("-", "_")
SocrataPrefix == <<"s", "o", "c", "r", "a", "t", "a", "_">>
TableName(id) == SocrataPrefix \o Replace(id, "-", "_")

TableNames == {TableName(id) : id \in Ids}

\* A URL after urllib.parse.urlparse: its netloc and its path split at "/".
UrlOf(id)        == [netloc |-> "data.edmonton.ca", path |-> <<<<>>, <<"r", "o", "w", "s">>, id>>]
UrlNoDomain      == [netloc |-> "", path |-> <<<<>>, IdEdmonton>>]
UrlBadId         == [netloc |-> "data.edmonton.ca", path |-> <<<<>>, <<"r", "o", "w", "s">>>>]
Urls == {UrlOf(id) : id \in Ids} \cup {UrlNoDomain, UrlBadId}

\* The empty string, which is what the handler takes a missing url for.
UrlEmpty == [netloc |-> "", path |-> <<<<>>>>]

\* Mutant: the last path element is taken for an id unseen.
parse_url_unchecked(url) ==
    LET potential_id == url.path[Len(url.path)] IN
    IF url.netloc = ""
    THEN [ok |-> FALSE, error |-> "Missing domain", id |-> <<>>]
    ELSE [ok |-> TRUE, error |-> NULL, id |-> potential_id]

\* parse_url: (domain, id), or the ParseError it raises.
parse_url(url) ==
    LET potential_id == url.path[Len(url.path)] IN
    IF url.netloc = ""
    THEN [ok |-> FALSE, error |-> "Missing domain", id |-> <<>>]
    ELSE IF ~is_valid_id(potential_id)
    THEN [ok |-> FALSE, error |-> "Last element of path was not a valid ID", id |-> <<>>]
    ELSE [ok |-> TRUE, error |-> NULL, id |-> potential_id]

\* ---------------------------------------------------------------- databases

\* The databases attached to the instance (tests, datasette2 fixture), an
\* immutable database in WAL mode, and Datasette's own _internal database.
DbNames == {"data2", "data3", "notwal", "frozen", "_internal"}

is_mutable(d) == d # "frozen"
journal_mode(d) == IF d \in {"data2", "data3", "frozen"} THEN "wal" ELSE "delete"

\* A target table that does not exist, and the socrata_imports table likewise.
\* types maps each column of an existing table to its column type.
NoTable == [exists |-> FALSE, rows |-> <<>>, transformed |-> FALSE, types |-> <<>>]
NoImports == [exists |-> FALSE, rows |-> {}]

EmptyDb == [imports |-> NoImports, tables |-> [n \in TableNames |-> NoTable]]

\* create table if not exists socrata_imports (...)
CreateImports(db) ==
    IF db.imports.exists THEN db
    ELSE [db EXCEPT !.imports = [exists |-> TRUE, rows |-> {}]]

\* The row the handler inserts: the insert names no import_complete, so the
\* column takes its default, null.
FreshRecord(key, row_count) ==
    [id |-> key, row_count |-> row_count, row_progress |-> 0,
     error |-> NULL, import_complete |-> NULL]

\* Mutant: an upsert, which leaves the columns the insert does not name.
InsertUpsert(db, rec) ==
    [db EXCEPT !.imports.rows =
        {r \in @ : r.id # rec.id}
        \cup {[rec EXCEPT !.import_complete =
                  IF \E r \in db.imports.rows : r.id = rec.id
                  THEN (CHOOSE r \in db.imports.rows : r.id = rec.id).import_complete
                  ELSE NULL]}]

\* Table.insert(record, replace=True): INSERT OR REPLACE on the primary key.
InsertReplace(db, rec) ==
    [db EXCEPT !.imports.rows = {r \in @ : r.id # rec.id} \cup {rec}]

\* Mutant: the drop left out.
DropTableSkipped(db, name) == db

\* Table.drop(ignore=True)
DropTable(db, name) == [db EXCEPT !.tables[name] = NoTable]

HasRecord(db, key) == \E r \in db.imports.rows : r.id = key

\* Table.update(pk, {column: value}); the caller has checked HasRecord, as
\* update() raises NotFoundError for a key that has no row.
UpdateRecord(db, key, column, value) ==
    [db EXCEPT !.imports.rows =
        {IF r.id = key THEN [r EXCEPT ![column] = value] ELSE r : r \in @}]

\* Mutant: the update without its where clause.
AddProgressEverywhere(db, key, n) ==
    [db EXCEPT !.imports.rows = {[r EXCEPT !.row_progress = @ + n] : r \in @}]

\* update socrata_imports set row_progress = row_progress + ? where id = ?
AddProgress(db, key, n) ==
    [db EXCEPT !.imports.rows =
        {IF r.id = key THEN [r EXCEPT !.row_progress = @ + n] ELSE r : r \in @}]

\* The columns a table created from these rows gets: the keys of the first
\* row, each of type text, as every value of a csv row is a str.
ColumnsOf(rows) == [c \in DOMAIN rows[1] |-> "text"]

\* Mutant: the rows of a batch are put in front of the rows already there.
InsertAllInFront(db, name, rows) ==
    [db EXCEPT !.tables[name] =
        [exists |-> TRUE, rows |-> rows \o @.rows, transformed |-> @.transformed,
         types |-> IF @.exists \/ rows = <<>> THEN @.types ELSE ColumnsOf(rows)]]

\* Table.insert_all(rows): creates the table on first use, appends the rows.
InsertAll(db, name, rows) ==
    [db EXCEPT !.tables[name] =
        [exists |-> TRUE, rows |-> @.rows \o rows, transformed |-> @.transformed,
         types |-> IF @.exists \/ rows = <<>> THEN @.types ELSE ColumnsOf(rows)]]

\* Table.transform(types=...): rewrites the types of the columns it names.
Transform(db, name, types) ==
    [db EXCEPT !.tables[name].transformed = TRUE,
               !.tables[name].types =
                   [c \in DOMAIN @ |-> IF c \in DOMAIN types THEN types[c] ELSE @[c]]]

\* ------------------------------------------------------ in-memory metadata

\* datasette._socrata_metadata = {} (line 477)
EmptiedMetadata == [keys |-> {}, databases |-> [d \in {} |-> {}]]

\* {"databases": databases} as lines 478-515 build it from the databases
\* named: an entry for every database that has a socrata_imports table, with
\* an entry for the table "socrata_" + id.replace("-", "_") of every row.
BuiltMetadata(names, D) ==
    [keys |-> {"databases"},
     databases |-> [d \in {n \in names : D[n].imports.exists} |->
                       {TableName(row.id) : row \in D[d].imports.rows}]]

\* ---------------------------------------------------------------- CSV input

\* The header line of every export, and the i-th data line of the stream that
\* request r opens; a line is the sequence of its fields, the empty line <<>>.
Header == <<"id", "species", "height">>
Digits == <<"1", "2", "3", "4", "5", "6", "7", "8", "9">>
Species == <<"Dog", "Chicken", "Cat", "Horse">>

\* The height column starts with a token that is no integer: "n/a" in the
\* stream of the first request, "2.5" in the streams of the later ones.
Height(r, i) == IF i > 1 THEN Digits[i] ELSE IF r = 1 THEN "n/a" ELSE "2.5"

DataLine(r, i) == <<Digits[i], Species[r], Height(r, i)>>
EmptyLine == <<>>

\* csv.DictReader: a row maps each field name to the field at its position.
DictRow(fieldnames, line) ==
    [f \in Range(fieldnames) |->
        LET i == CHOOSE j \in 1..Len(fieldnames) :
                    /\ fieldnames[j] = f
                    /\ \A k \in (j + 1)..Len(fieldnames) : fieldnames[k] # f
        IN IF i <= Len(line) THEN line[i] ELSE NULL]

\* AsyncDictReader.__init__
NewReader == [line_num |-> 0, fieldnames |-> <<>>]

\* Mutant: line_num is never advanced, so every call reads a header again.
AnextKeepsLineNum(rd, lines) ==
    LET after == IF lines # <<>> THEN Tail(lines) ELSE lines
        names == IF lines # <<>> THEN Head(lines) ELSE rd.fieldnames
    IN  IF lines = <<>> \/ after = <<>> \/ Head(after) = EmptyLine
        THEN [stop |-> TRUE, row |-> <<>>, rd |-> rd, lines |-> after]
        ELSE [stop |-> FALSE,
              row  |-> DictRow(names, Head(after)),
              rd   |-> [line_num |-> 0, fieldnames |-> names],
              lines |-> Tail(after)]

\* Mutant: an empty line is passed over and the line after it is read.
AnextSkipsEmpty(rd, lines) ==
    LET hdr   == rd.line_num = 0
        first == IF hdr /\ lines # <<>> THEN Tail(lines) ELSE lines
        after == IF first # <<>> /\ Head(first) = EmptyLine THEN Tail(first) ELSE first
        names == IF hdr /\ lines # <<>> THEN Head(lines) ELSE rd.fieldnames
    IN  IF (hdr /\ lines = <<>>) \/ after = <<>> \/ Head(after) = EmptyLine
        THEN [stop |-> TRUE, row |-> <<>>, rd |-> rd, lines |-> after]
        ELSE [stop |-> FALSE,
              row  |-> DictRow(names, Head(after)),
              rd   |-> [line_num |-> (IF hdr THEN 2 ELSE rd.line_num + 1),
                        fieldnames |-> names],
              lines |-> Tail(after)]

\* AsyncDictReader.__anext__ on the lines the iterator still delivers: the
\* row it returns, or stop when it raises StopAsyncIteration.
Anext(rd, lines) ==
    LET hdr   == rd.line_num = 0
        after == IF hdr /\ lines # <<>> THEN Tail(lines) ELSE lines
        names == IF hdr /\ lines # <<>> THEN Head(lines) ELSE rd.fieldnames
    IN  IF (hdr /\ lines = <<>>) \/ after = <<>> \/ Head(after) = EmptyLine
        THEN [stop |-> TRUE, row |-> <<>>, rd |-> rd, lines |-> after]
        ELSE [stop |-> FALSE,
              row  |-> DictRow(names, Head(after)),
              rd   |-> [line_num |-> (IF hdr THEN 2 ELSE rd.line_num + 1),
                        fieldnames |-> names],
              lines |-> Tail(after)]

\* The loop of run_the_import up to its next write_batch call: rows are
\* appended to the batch until it holds BatchSize rows or the reader stops.
RECURSIVE ReadBatch(_, _, _)
ReadBatch(rd, lines, batch) ==
    IF Len(batch) >= BatchSize
    THEN [rd |-> rd, batch |-> batch, stopped |-> FALSE, lines |-> lines]
    ELSE LET n == Anext(rd, lines) IN
         IF n.stop
         THEN [rd |-> rd, batch |-> batch, stopped |-> TRUE, lines |-> n.lines]
         ELSE ReadBatch(n.rd, n.lines, Append(batch, n.row))

\* ------------------------------------------------------------- type tracker

\* The tokens int() and float() accept, among those the streams hold.
IntegerTokens == Range(Digits)
FloatTokens == IntegerTokens \cup {"2.5"}

\* ValueTracker: the tests a column's values can still pass.
TypeTests == {"integer", "float"}

test(name, value) ==
    IF name = "integer" THEN value \in IntegerTokens ELSE value \in FloatTokens

\* Mutant: the tests are those the latest value passes.
evaluate_latest(couldbe, value) ==
    IF value = "" \/ value = NULL THEN couldbe
    ELSE {name \in TypeTests : test(name, value)}

\* ValueTracker.evaluate(value): an empty value is skipped, any other value
\* removes the tests it fails.
evaluate(couldbe, value) ==
    IF value = "" \/ value = NULL \/ couldbe = {} THEN couldbe
    ELSE {name \in couldbe : test(name, value)}

\* ValueTracker.guessed_type
guessed_type(couldbe) ==
    IF "integer" \in couldbe THEN "integer"
    ELSE IF "float" \in couldbe THEN "float"
    ELSE "text"

\* TypeTracker(): no column has a tracker yet.
NewTracker == [c \in {} |-> TypeTests]

\* One row through TypeTracker.wrap: every key gets its tracker on first
\* sight and that tracker evaluates the row's value.
WrapRow(trackers, row) ==
    [c \in DOMAIN trackers \cup DOMAIN row |->
        IF c \notin DOMAIN row THEN trackers[c]
        ELSE evaluate(IF c \in DOMAIN trackers THEN trackers[c] ELSE TypeTests, row[c])]

RECURSIVE WrapRows(_, _)
WrapRows(trackers, rows) ==
    IF rows = <<>> THEN trackers
    ELSE WrapRows(WrapRow(trackers, Head(rows)), Tail(rows))

\* Mutant: a new TypeTracker for every batch.
TrackerWrapFresh(trackers, batch) == WrapRows(NewTracker, batch)

\* list(tracker.wrap(batch)): the tracker after the batch has gone through
\* it; the rows come out as they went in.
TrackerWrap(trackers, batch) == WrapRows(trackers, batch)

\* TypeTracker.types
TrackerTypes(trackers) == [c \in DOMAIN trackers |-> guessed_type(trackers[c])]

\* -------------------------------------------------------------------- state

VARIABLES
    attached,    \* datasette.databases: the names of the attached databases
    configured,  \* plugin_config("datasette-socrata")["database"], or NULL
    dbs,         \* the committed content of every database
    req,         \* the POST request being handled: the handler's locals
    nreq,        \* number of POST requests received so far
    tasks,       \* tasks[r]: the background task that request r started
    cache,       \* datasette._socrata_metadata, which get_metadata returns
    trial        \* the input and the results of a function that is run on its own

vars == <<attached, configured, dbs, req, nreq, tasks, cache, trial>>

Requests == 1..MaxRequests

NoTask ==
    [pc |-> "none", id |-> <<>>, db |-> NULL, table_name |-> <<>>,
     reader |-> NewReader, pulled |-> 0, stream |-> "open",
     batch |-> <<>>, tracker |-> NewTracker, final |-> FALSE, error |-> NULL,
     writes |-> 0, solo |-> TRUE]

\* request.actor of a request without an actor: None.
NoActor == [present |-> FALSE, id |-> NULL]

IdleRequest ==
    [pc |-> "idle", actor |-> NoActor, method |-> NULL, id |-> <<>>, metadata_id |-> <<>>, db |-> NULL,
     row_count |-> UNKNOWN, calls |-> {}, i |-> 0, solo |-> TRUE,
     response |-> [status |-> 0, error |-> NULL, location |-> NULL, row_count |-> UNKNOWN]]

\* No function is run on its own.
NoTrial == [of |-> "nothing"]

\* The instances the model starts from: the databases of the tests'
\* datasette2 fixture, an instance with one WAL database or an instance with
\* none, each with an immutable database attached, and the plugin configured
\* for no database, for data3, for notwal or for the immutable database.  The
\* startup hook has built the metadata of the databases, which hold nothing.
Init ==
    /\ attached \in {{"data2", "data3", "notwal", "frozen", "_internal"},
                     {"data2", "notwal", "frozen", "_internal"},
                     {"notwal", "frozen", "_internal"}}
    /\ configured \in {NULL, "data3", "notwal", "frozen"}
    /\ dbs = [d \in DbNames |-> EmptyDb]
    /\ req = IdleRequest
    /\ nreq = 0
    /\ tasks = [r \in Requests |-> NoTask]
    /\ cache = BuiltMetadata(attached, dbs)
    /\ trial = NoTrial

\* get_metadata: getattr(datasette, "_socrata_metadata", None), on an instance
\* whose startup hook has run.
get_metadata == cache

\* A task that has returned or died: its frame, and with it its locals, is gone.
Ended(t, how) ==
    [NoTask EXCEPT !.pc = how, !.id = t.id, !.db = t.db, !.table_name = t.table_name,
                   !.solo = t.solo]

\* A task that has been started and has not ended.
Running(t) == t.pc \notin {"none", "done", "crashed"}

\* ------------------------------------------------------ the request handler

\* request.actor: no actor, the root actor, another actor.
Actors == {NoActor, [present |-> TRUE, id |-> "root"], [present |-> TRUE, id |-> "alice"]}

\* Mutant: the hook allows every signed-in actor.
PermittedAnyActor(actor) == actor.present

\* The plugin's permission_allowed hook: True, or None when it has no say.
permission_allowed(actor, action) ==
    IF action = "import-socrata" /\ actor.present /\ actor.id = "root"
    THEN "True" ELSE "None"

\* datasette.permission_allowed(actor, "import-socrata", default=False) of an
\* instance on which no other plugin or setting decides the action.
Permitted(actor) ==
    LET told == permission_allowed(actor, "import-socrata") IN
    IF told = "None" THEN FALSE ELSE told = "True"

\* The JSON bodies a count request is answered with: no JSON at all, an
\* object, or a list of items, each a dict (its key/value pairs in order) or
\* a scalar.  Keys are sequences of characters, values are tokens.
NotJson == [json |-> FALSE, list |-> FALSE, items |-> <<>>]
JsonObject == [json |-> TRUE, list |-> FALSE, items |-> <<>>]
JsonList(items) == [json |-> TRUE, list |-> TRUE, items |-> items]
Dict(pairs) == [dict |-> TRUE, pairs |-> pairs]
Scalar == [dict |-> FALSE, pairs |-> <<>>]

KeyCount == <<"c", "o", "u", "n", "t">>
KeyCount1 == <<"c", "o", "u", "n", "t", "_", "1">>
KeyTotal == <<"t", "o", "t", "a", "l">>

\* The answer of the tests' mock: [{"count": "2"}].
CountGood ==
    [transport |-> FALSE, status |-> 200,
     body |-> JsonList(<<Dict(<<[key |-> KeyCount, value |-> "2"]>>)>>)]

CountBodies ==
    {NotJson, JsonObject, JsonList(<<>>), JsonList(<<Scalar>>), JsonList(<<Dict(<<>>)>>),
     JsonList(<<Dict(<<[key |-> KeyCount, value |-> "2"]>>)>>),
     JsonList(<<Dict(<<[key |-> KeyCount1, value |-> "3"]>>)>>),
     JsonList(<<Dict(<<[key |-> KeyTotal, value |-> "2"]>>)>>),
     JsonList(<<Dict(<<[key |-> KeyCount, value |-> "many"]>>)>>),
     JsonList(<<Dict(<<[key |-> KeyCount, value |-> "2"]>>),
                Dict(<<[key |-> KeyCount, value |-> "3"]>>)>>)}

\* The outcomes of the count request: an answer, or an error of the transport.
CountResponses ==
    {[transport |-> FALSE, status |-> 200, body |-> b] : b \in CountBodies}
    \cup {[transport |-> FALSE, status |-> 404, body |-> JsonObject],
          [transport |-> TRUE, status |-> 0, body |-> NotJson]}

\* str.startswith
startswith(s, prefix) ==
    Len(s) >= Len(prefix) /\ SubSeq(s, 1, Len(prefix)) = prefix

\* int(token)
int(token) == CHOOSE n \in 1..Len(Digits) : Digits[n] = token

Returned(value) == [raised |-> FALSE, error |-> NULL, value |-> value]
Raised(error) == [raised |-> TRUE, error |-> error, value |-> UNKNOWN]

\* get_row_count: what it returns, or the exception that leaves it.  Nothing
\* in it catches: client.get raises on a transport error, .json() on a body
\* that is no JSON, .keys() on an item that is no dict, [0] on an empty
\* dict, int() on a value that is no integer.
get_row_count(response) ==
    IF response.transport THEN Raised("httpx.HTTPError")
    ELSE IF response.status # 200 THEN Returned(UNKNOWN)
    ELSE IF ~response.body.json THEN Raised("JSONDecodeError")
    ELSE IF ~response.body.list \/ Len(response.body.items) # 1 THEN Returned(UNKNOWN)
    ELSE LET first == response.body.items[1] IN
         IF ~first.dict THEN Raised("AttributeError")
         ELSE IF first.pairs = <<>> THEN Raised("IndexError")
         ELSE IF ~startswith(first.pairs[1].key, KeyCount) THEN Returned(UNKNOWN)
         ELSE IF first.pairs[1].value \notin IntegerTokens THEN Raised("ValueError")
         ELSE Returned(int(first.pairs[1].value))

\* Mutant: the is_mutable test left out.
EligibleIgnoresMutable ==
    {d \in attached : d # "_internal" /\ journal_mode(d) = "wal"}

\* supported_databases as first computed (lines 106-114).
EligibleDatabases ==
    {d \in attached : is_mutable(d) /\ d # "_internal" /\ journal_mode(d) = "wal"}

\* supported_databases after the configured database has narrowed it.
SupportedDatabases ==
    IF configured # NULL THEN {d \in EligibleDatabases : d = configured}
    ELSE EligibleDatabases

ErrForbidden == "Permission denied for import-socrata"
ErrNoDatabases == "There are no attached databases which can be written to and are running in WAL mode."
ErrConfigured == "Configured database is not both writable and running in WAL mode."
ErrPick == "You need to pick a database."
ErrNotFound == "Dataset not found"
ErrHttp == "HTTP error fetching metadata for dataset"

\* A request that ends with this status and message; calls are the HTTP
\* requests the handler has made by then.
Failed(status, message, calls) ==
    [status |-> status, error |-> message, id |-> <<>>, metadata_id |-> <<>>,
     db |-> NULL, calls |-> calls, row_count |-> UNKNOWN]

\* The id field of the metadata document the server answers with: the id of
\* the view that was asked for (api/views/{id}.json), as in the tests' mock.
MetadataIds(url) == IF parse_url(url).ok THEN {parse_url(url).id} ELSE {<<>>}

\* Mutant: without a posted database the first supported one is taken.
PickAnyDatabase(database) ==
    IF Cardinality(SupportedDatabases) = 1 THEN CHOOSE d \in SupportedDatabases : TRUE
    ELSE IF database \in SupportedDatabases THEN database
    ELSE CHOOSE d \in SupportedDatabases : TRUE

\* "Which database?" (lines 176-184): the only supported one, or the
\* supported one the POST names; NULL when it names none of them.
PickDatabase(database) ==
    IF Cardinality(SupportedDatabases) = 1 THEN CHOOSE d \in SupportedDatabases : TRUE
    ELSE IF database \in SupportedDatabases THEN database
    ELSE NULL

\* What a POST comes to before its first write: the gate of lines 85-88, the
\* checks of lines 102-129 and 157-184 in the code's order.  fetch is the
\* outcome of the metadata request, count that of the count request,
\* metadata_id the id field of the document, database the posted database
\* value.  An exception that nothing catches ends the request with a 500.
PostOutcome(actor, url, fetch, count, metadata_id, database) ==
    LET parsed == parse_url(url)
        probe  == get_row_count(count)
    IN
    IF ~Permitted(actor) THEN Failed(403, ErrForbidden, {})
    ELSE IF EligibleDatabases = {} /\ configured = NULL THEN Failed(400, ErrNoDatabases, {})
    ELSE IF configured # NULL /\ configured \notin EligibleDatabases
    THEN Failed(400, ErrConfigured, {})
    ELSE IF ~parsed.ok THEN Failed(200, parsed.error, {})
    ELSE IF fetch = "notfound" THEN Failed(200, ErrNotFound, {"metadata"})
    ELSE IF fetch = "httperror" THEN Failed(200, ErrHttp, {"metadata"})
    ELSE IF probe.raised THEN Failed(500, probe.error, {"metadata", "count"})
    ELSE IF PickDatabase(database) = NULL
    THEN Failed(400, ErrPick, {"metadata", "count"})
    ELSE [status |-> 0, error |-> NULL, id |-> parsed.id, metadata_id |-> metadata_id,
          db |-> PickDatabase(database),
          calls |-> {"metadata", "count"}, row_count |-> probe.value]

\* What a GET comes to (lines 85-155): the same gate and admission checks,
\* then the preview of the dataset the url names, if it names one.
GetOutcome(actor, url, fetch, count) ==
    LET parsed == parse_url(url)
        probe  == get_row_count(count)
    IN
    IF ~Permitted(actor) THEN Failed(403, ErrForbidden, {})
    ELSE IF EligibleDatabases = {} /\ configured = NULL THEN Failed(400, ErrNoDatabases, {})
    ELSE IF configured # NULL /\ configured \notin EligibleDatabases
    THEN Failed(400, ErrConfigured, {})
    ELSE IF url = UrlEmpty THEN [Failed(200, NULL, {}) EXCEPT !.row_count = UNKNOWN]
    ELSE IF ~parsed.ok THEN Failed(200, parsed.error, {})
    ELSE IF fetch = "notfound" THEN Failed(200, ErrNotFound, {"metadata"})
    ELSE IF fetch = "httperror" THEN Failed(200, ErrHttp, {"metadata"})
    ELSE IF probe.raised THEN Failed(500, probe.error, {"metadata", "count"})
    ELSE [Failed(200, NULL, {"metadata", "count"}) EXCEPT !.row_count = probe.value]

\* Mutant: the error response is not returned, the handler goes on.
AfterChecksGoesOn(o) == "ensure_table"

\* Where the handler stands after those checks: it has returned its error
\* response, or it goes on to create the socrata_imports table.
AfterChecks(o) == IF o.error # NULL THEN "idle" ELSE "ensure_table"

\* POST /-/import-socrata up to the first write.
Post(actor, url, fetch, count, metadata_id, database) ==
    /\ req.pc = "idle"
    /\ nreq < MaxRequests
    /\ LET o == PostOutcome(actor, url, fetch, count, metadata_id, database) IN
       req' = [pc |-> AfterChecks(o), actor |-> actor, method |-> "POST", id |-> o.id,
               metadata_id |-> o.metadata_id, db |-> o.db, row_count |-> o.row_count,
               calls |-> o.calls, i |-> 0, solo |-> TRUE,
               response |-> [status |-> o.status, error |-> o.error, location |-> NULL,
                             row_count |-> UNKNOWN]]
    /\ nreq' = nreq + 1
    /\ UNCHANGED <<attached, configured, cache, trial, dbs, tasks>>

\* GET /-/import-socrata: the form, with the preview of the dataset.
Get(actor, url, fetch, count) ==
    /\ req.pc = "idle"
    /\ nreq < MaxRequests
    /\ LET o == GetOutcome(actor, url, fetch, count) IN
       req' = [pc |-> "idle", actor |-> actor, method |-> "GET", id |-> o.id,
               metadata_id |-> o.metadata_id, db |-> o.db, row_count |-> UNKNOWN,
               calls |-> o.calls, i |-> 0, solo |-> TRUE,
               response |-> [status |-> o.status, error |-> o.error, location |-> NULL,
                             row_count |-> o.row_count]]
    /\ nreq' = nreq + 1
    /\ UNCHANGED <<attached, configured, cache, trial, dbs, tasks>>

\* await database.execute_write("create table if not exists socrata_imports")
EnsureTable ==
    /\ req.pc = "ensure_table"
    /\ dbs' = [dbs EXCEPT ![req.db] = CreateImports(@)]
    /\ req' = [req EXCEPT !.pc = "insert"]
    /\ UNCHANGED <<attached, configured, cache, trial, nreq, tasks>>

\* The tasks that work on the table and record this request is about to reset.
Overlapping == {q \in Requests : Running(tasks[q]) /\ tasks[q].db = req.db /\ tasks[q].id = req.id}

\* The insert of the Import Record (lines 206-221).  solo notes, for the
\* properties only, whether an import of the same dataset was still running.
InsertRecord ==
    /\ req.pc = "insert"
    /\ dbs' = [dbs EXCEPT ![req.db] = InsertReplace(@, FreshRecord(req.metadata_id, req.row_count))]
    /\ req' = [req EXCEPT !.pc = "refresh", !.solo = (Overlapping = {})]
    /\ tasks' = [q \in Requests |->
                    IF q \in Overlapping THEN [tasks[q] EXCEPT !.solo = FALSE] ELSE tasks[q]]
    /\ UNCHANGED <<attached, configured, cache, trial, nreq>>

\* await refresh_in_memory_socrata_metadata(datasette) (line 222), its first
\* statement: the attribute is set to {} before anything is read.
RefreshClear ==
    /\ req.pc = "refresh"
    /\ cache' = EmptiedMetadata
    /\ req' = [req EXCEPT !.pc = "refreshing"]
    /\ UNCHANGED <<attached, configured, dbs, nreq, tasks, trial>>

\* The rest of it: the awaited reads of every database (lines 479-514; no
\* step of the model changes the rows' ids between them) and the
\* assignment of the mapping they give (line 515).
RefreshStore ==
    /\ req.pc = "refreshing"
    /\ cache' = BuiltMetadata(attached, dbs)
    /\ req' = [req EXCEPT !.pc = "drop"]
    /\ UNCHANGED <<attached, configured, dbs, nreq, tasks, trial>>

\* The closure run_the_import_catch_errors as asyncio.ensure_future gets it.
NewTask ==
    [NoTask EXCEPT !.pc = "read", !.id = req.id, !.db = req.db,
                   !.table_name = TableName(req.id), !.solo = req.solo]

\* The drop of the target table and the start of the task (lines 224-230, 293).
DropAndStart ==
    /\ req.pc = "drop"
    /\ dbs' = [dbs EXCEPT ![req.db] = DropTable(@, TableName(req.id))]
    /\ tasks' = [tasks EXCEPT ![nreq] = NewTask]
    /\ req' = [req EXCEPT !.pc = "poll", !.i = 0]
    /\ UNCHANGED <<attached, configured, cache, trial, nreq>>

\* Mutant: the handler awaits the task before it looks for the table.
PollWaits ==
    /\ req.pc = "poll"
    /\ ~Running(tasks[nreq])
    /\ IF dbs[req.db].tables[TableName(req.id)].exists
       THEN req' = [req EXCEPT !.pc = "idle",
                       !.response = [status |-> 302, error |-> NULL, location |-> "table",
                                     row_count |-> UNKNOWN]]
       ELSE IF req.i + 1 < PollLimit
       THEN req' = [req EXCEPT !.i = @ + 1]
       ELSE req' = [req EXCEPT !.pc = "idle", !.i = @ + 1,
                       !.response = [status |-> 302, error |-> NULL, location |-> "database",
                                     row_count |-> UNKNOWN]]
    /\ UNCHANGED <<attached, configured, cache, trial, dbs, nreq, tasks>>

\* One turn of the loop of lines 296-310.
Poll ==
    /\ req.pc = "poll"
    /\ IF dbs[req.db].tables[TableName(req.id)].exists
       THEN req' = [req EXCEPT !.pc = "idle",
                       !.response = [status |-> 302, error |-> NULL, location |-> "table",
                                     row_count |-> UNKNOWN]]
       ELSE IF req.i + 1 < PollLimit
       THEN req' = [req EXCEPT !.i = @ + 1]
       ELSE req' = [req EXCEPT !.pc = "idle", !.i = @ + 1,
                       !.response = [status |-> 302, error |-> NULL, location |-> "database",
                                     row_count |-> UNKNOWN]]
    /\ UNCHANGED <<attached, configured, cache, trial, dbs, nreq, tasks>>

\* ------------------------------------------------------ the background task

ErrStream == "stream error"
ErrDiskSpace == "Disk space is running low"
ErrWrite == "database error"
ErrNoTransform == "Cannot transform a table that doesn't exist yet"
ErrTransform == "transform error"
ErrNotFoundRow == "NotFoundError"
Now == "utcnow"

\* The lines the iterator delivers next: the header if nothing was read yet,
\* k data lines of the stream of request r, and an empty line if the stream
\* holds one there.
Delivered(r, k, ev) ==
    (IF tasks[r].reader.line_num = 0 THEN <<Header>> ELSE <<>>)
    \o [j \in 1..k |-> DataLine(r, tasks[r].pulled + j)]
    \o (IF ev = "blank" THEN <<EmptyLine>> ELSE <<>>)

\* Mutant: the "if batch:" write after the loop left out.
AfterReadDropsPartial(t, got, k, ev) ==
    IF got.stopped /\ ev = "raise"
    THEN [t EXCEPT !.pc = "catch", !.error = ErrStream, !.stream = ev,
                   !.reader = got.rd, !.pulled = @ + k, !.batch = got.batch]
    ELSE IF got.stopped
    THEN [t EXCEPT !.pc = "transform", !.final = TRUE, !.stream = ev,
                   !.reader = got.rd, !.pulled = @ + k, !.batch = <<>>]
    ELSE [t EXCEPT !.pc = "write",
                   !.reader = got.rd, !.pulled = @ + k, !.batch = got.batch]

\* The task after the loop of lines 266-273 has run up to its next
\* write_batch call, to the end of the rows, or to the exception of the
\* stream.  ev is what follows the k data lines: more lines, the end of the
\* body, an empty line, or an error of the transport.  A batch handed to
\* write_batch has gone through the one tracker of the import.
AfterRead(t, got, k, ev) ==
    IF got.stopped /\ ev = "raise"
    THEN [t EXCEPT !.pc = "catch", !.error = ErrStream, !.stream = ev,
                   !.reader = got.rd, !.pulled = @ + k, !.batch = got.batch]
    ELSE IF got.stopped
    THEN [t EXCEPT !.pc = (IF got.batch # <<>> THEN "write" ELSE "transform"),
                   !.final = TRUE, !.stream = ev,
                   !.reader = got.rd, !.pulled = @ + k, !.batch = got.batch,
                   !.tracker = TrackerWrap(@, got.batch)]
    ELSE [t EXCEPT !.pc = "write",
                   !.reader = got.rd, !.pulled = @ + k, !.batch = got.batch,
                   !.tracker = TrackerWrap(@, got.batch)]

ReadRows(r, k, ev) ==
    /\ tasks[r].pc = "read"
    /\ tasks[r].pulled + k <= MaxLines
    /\ IF ev = "more" THEN k = BatchSize - Len(tasks[r].batch)
                      ELSE k < BatchSize - Len(tasks[r].batch)
    /\ tasks' = [tasks EXCEPT ![r] =
                    AfterRead(@, ReadBatch(@.reader, Delivered(r, k, ev), @.batch), k, ev)]
    /\ UNCHANGED <<attached, configured, cache, trial, dbs, req, nreq>>

\* Mutant: the insert commits on its own, before the counter update runs.
WriteCommitsInsert(db, t, fail) ==
    LET inserted == InsertAll(db, t.table_name, t.batch)
        updated  == AddProgress(inserted, t.id, Len(t.batch))
    IN  IF fail = "none" THEN updated
        ELSE IF fail = "update" THEN inserted
        ELSE db

\* Mutant: the batch is inserted and the counter is left alone.
WriteLeavesCounter(db, t, fail) ==
    IF fail = "none" THEN InsertAll(db, t.table_name, t.batch) ELSE db

\* _write(conn): the insert and the counter update inside "with db.conn:",
\* which commits both on success and rolls both back when fail names the
\* statement that raised.
WriteTransaction(db, t, fail) ==
    LET inserted == InsertAll(db, t.table_name, t.batch)
        updated  == AddProgress(inserted, t.id, Len(t.batch))
    IN  IF fail = "none" THEN updated ELSE db

\* Mutant: the disk space is looked at after the write instead of before it.
WriteBatchChecksAfter(r, low, fail) ==
    /\ tasks[r].pc = "write"
    /\ IF fail # "none"
       THEN /\ tasks' = [tasks EXCEPT ![r].pc = "catch", ![r].error = ErrWrite]
            /\ dbs' = dbs
       ELSE IF low
       THEN /\ tasks' = [tasks EXCEPT ![r].pc = "catch", ![r].error = ErrDiskSpace]
            /\ dbs' = [dbs EXCEPT ![tasks[r].db] =
                          AddProgress(InsertAll(@, tasks[r].table_name, tasks[r].batch),
                                      tasks[r].id, Len(tasks[r].batch))]
       ELSE /\ tasks' = [tasks EXCEPT ![r].pc = (IF tasks[r].final THEN "transform" ELSE "read"),
                                      ![r].batch = <<>>,
                                      ![r].writes = @ + 1]
            /\ dbs' = [dbs EXCEPT ![tasks[r].db] =
                          AddProgress(InsertAll(@, tasks[r].table_name, tasks[r].batch),
                                      tasks[r].id, Len(tasks[r].batch))]
    /\ UNCHANGED <<attached, configured, cache, trial, req, nreq>>

\* write_batch(rows) and the lines that follow the call (271).
WriteBatch(r, low, fail) ==
    /\ tasks[r].pc = "write"
    /\ IF low
       THEN /\ tasks' = [tasks EXCEPT ![r].pc = "catch", ![r].error = ErrDiskSpace]
            /\ dbs' = dbs
       ELSE IF fail # "none"
       THEN /\ tasks' = [tasks EXCEPT ![r].pc = "catch", ![r].error = ErrWrite]
            /\ dbs' = [dbs EXCEPT ![tasks[r].db] = WriteTransaction(@, tasks[r], fail)]
       ELSE /\ tasks' = [tasks EXCEPT ![r].pc = (IF tasks[r].final THEN "transform" ELSE "read"),
                                      ![r].batch = <<>>,
                                      ![r].writes = @ + 1]
            /\ dbs' = [dbs EXCEPT ![tasks[r].db] = WriteTransaction(@, tasks[r], fail)]
    /\ UNCHANGED <<attached, configured, cache, trial, req, nreq>>

\* Mutant: a failure of the rewrite is passed over.
TransformTableUnchecked(r, fail) ==
    /\ tasks[r].pc = "transform"
    /\ LET t == tasks[r] IN
       IF ~dbs[t.db].tables[t.table_name].exists \/ fail
       THEN /\ tasks' = [tasks EXCEPT ![r].pc = "complete"]
            /\ dbs' = dbs
       ELSE /\ tasks' = [tasks EXCEPT ![r].pc = "complete"]
            /\ dbs' = [dbs EXCEPT ![t.db] =
                          Transform(@, t.table_name, TrackerTypes(t.tracker))]
    /\ UNCHANGED <<attached, configured, cache, trial, req, nreq>>

\* Table.transform(types=tracker.types) (lines 275-280).
TransformTable(r, fail) ==
    /\ tasks[r].pc = "transform"
    /\ LET t == tasks[r] IN
       IF ~dbs[t.db].tables[t.table_name].exists
       THEN /\ tasks' = [tasks EXCEPT ![r].pc = "catch", ![r].error = ErrNoTransform]
            /\ dbs' = dbs
       ELSE IF fail
       THEN /\ tasks' = [tasks EXCEPT ![r].pc = "catch", ![r].error = ErrTransform]
            /\ dbs' = dbs
       ELSE /\ tasks' = [tasks EXCEPT ![r].pc = "complete"]
            /\ dbs' = [dbs EXCEPT ![t.db] =
                          Transform(@, t.table_name, TrackerTypes(t.tracker))]
    /\ UNCHANGED <<attached, configured, cache, trial, req, nreq>>

\* The update that stamps import_complete (lines 282-291).
RecordCompletion(r) ==
    /\ tasks[r].pc = "complete"
    /\ LET t == tasks[r] IN
       IF HasRecord(dbs[t.db], t.id)
       THEN /\ tasks' = [tasks EXCEPT ![r] = Ended(t, "done")]
            /\ dbs' = [dbs EXCEPT ![t.db] = UpdateRecord(@, t.id, "import_complete", Now)]
       ELSE /\ tasks' = [tasks EXCEPT ![r].pc = "catch", ![r].error = ErrNotFoundRow]
            /\ dbs' = dbs
    /\ UNCHANGED <<attached, configured, cache, trial, req, nreq>>

\* Mutant: the exception is swallowed, no error is written.
RecordErrorLost(r) ==
    /\ tasks[r].pc = "catch"
    /\ tasks' = [tasks EXCEPT ![r] = Ended(@, "done")]
    /\ UNCHANGED <<attached, configured, cache, trial, dbs, req, nreq>>

\* Mutant: the completion is stamped in a finally clause, after an error too.
RecordErrorAndStamp(r) ==
    /\ tasks[r].pc = "catch"
    /\ LET t == tasks[r] IN
       /\ HasRecord(dbs[t.db], t.id)
       /\ tasks' = [tasks EXCEPT ![r] = Ended(t, "done")]
       /\ dbs' = [dbs EXCEPT ![t.db] =
                     UpdateRecord(UpdateRecord(@, t.id, "error", t.error),
                                  t.id, "import_complete", Now)]
    /\ UNCHANGED <<attached, configured, cache, trial, req, nreq>>

\* Mutant: the try/except wraps the loop only; after the error is written
\* the task goes on to the type rewrite.
RecordErrorThenGoesOn(r) ==
    /\ tasks[r].pc = "catch"
    /\ LET t == tasks[r] IN
       /\ HasRecord(dbs[t.db], t.id)
       /\ tasks' = [tasks EXCEPT ![r].pc = "transform"]
       /\ dbs' = [dbs EXCEPT ![t.db] = UpdateRecord(@, t.id, "error", t.error)]
    /\ UNCHANGED <<attached, configured, cache, trial, req, nreq>>

\* The except branch of run_the_import_catch_errors (lines 235-241); its own
\* update raises when the row is missing, and nothing catches that.
RecordError(r) ==
    /\ tasks[r].pc = "catch"
    /\ LET t == tasks[r] IN
       IF HasRecord(dbs[t.db], t.id)
       THEN /\ tasks' = [tasks EXCEPT ![r] = Ended(t, "done")]
            /\ dbs' = [dbs EXCEPT ![t.db] = UpdateRecord(@, t.id, "error", t.error)]
       ELSE /\ tasks' = [tasks EXCEPT ![r] = Ended(t, "crashed")]
            /\ dbs' = dbs
    /\ UNCHANGED <<attached, configured, cache, trial, req, nreq>>

\* One step of the task of request r.
TaskStep(r) ==
    \/ \E k \in 0..BatchSize, ev \in {"more", "eof", "blank", "raise"} : ReadRows(r, k, ev)
    \/ \E low \in BOOLEAN, fail \in {"none", "insert", "update"} : WriteBatch(r, low, fail)
    \/ \E fail \in BOOLEAN : TransformTable(r, fail)
    \/ RecordCompletion(r)
    \/ RecordError(r)

\* ------------------------------------------------------- the progress poll

\* The rows the poll URL of extra_body_script answers with for a dataset id:
\* socrata_imports.json?id=...&_col=row_count&_col=row_progress&_col=error,
\* read from the committed content of the database.
PollRows(D, d, id) ==
    {[row_count |-> rec.row_count, row_progress |-> rec.row_progress, error |-> rec.error] :
        rec \in {x \in D[d].imports.rows : x.id = id}}

\* str.replace(old, ""): every occurrence of old, from the left, is removed.
RECURSIVE Remove(_, _)
Remove(s, old) ==
    IF Len(s) < Len(old) THEN s
    ELSE IF SubSeq(s, 1, Len(old)) = old THEN Remove(SubSeq(s, Len(old) + 1, Len(s)), old)
    ELSE <<Head(s)>> \o Remove(Tail(s), old)

\* The extra_body_script hook (lines 455-473): the dataset id the progress
\* script polls for on the page of this table, or no script.
extra_body_script(view_name, table) ==
    LET dataset_id == Replace(Remove(table, SocrataPrefix), "_", "-") IN
    IF /\ table # <<>>
       /\ view_name = "table"
       /\ startswith(table, SocrataPrefix)
       /\ is_valid_id(dataset_id)
    THEN [script |-> TRUE, dataset_id |-> dataset_id]
    ELSE [script |-> FALSE, dataset_id |-> <<>>]

\* ------------------------------------------------------------ specification

PostedDatabases == {NULL, "data2", "data3", "notwal"}

FetchOutcomes == {"ok", "notfound", "httperror"}

\* The urls a request carries, the missing one among them.
RequestUrls == Urls \cup {UrlEmpty}

\* A POST of any actor; the count request is answered as in the tests' mock.
Receive == \E actor \in Actors, url \in RequestUrls, fetch \in FetchOutcomes,
              database \in PostedDatabases :
              \E metadata_id \in MetadataIds(url) :
                  Post(actor, url, fetch, CountGood, metadata_id, database)

\* A GET of any actor, likewise.
Preview == \E actor \in Actors, url \in RequestUrls, fetch \in FetchOutcomes :
              Get(actor, url, fetch, CountGood)

Read == \E r \in Requests, k \in 0..BatchSize, ev \in {"more", "eof", "blank", "raise"} :
            ReadRows(r, k, ev)

Write == \E r \in Requests, low \in BOOLEAN, fail \in {"none", "insert", "update"} :
            WriteBatch(r, low, fail)

Finalize == \E r \in Requests, fail \in BOOLEAN : TransformTable(r, fail)

Complete == \E r \in Requests : RecordCompletion(r)

Catch == \E r \in Requests : RecordError(r)

Next ==
    \/ Receive
    \/ Preview
    \/ EnsureTable
    \/ InsertRecord
    \/ RefreshClear
    \/ RefreshStore
    \/ DropAndStart
    \/ Poll
    \/ Read
    \/ Write
    \/ Finalize
    \/ Complete
    \/ Catch

Spec == Init /\ [][Next]_vars

\* One request, with every outcome of the count request.
ReceiveFirst ==
    /\ nreq = 0
    /\ \E actor \in Actors, url \in RequestUrls, fetch \in FetchOutcomes,
          count \in CountResponses, database \in PostedDatabases :
          \E metadata_id \in MetadataIds(url) :
              Post(actor, url, fetch, count, metadata_id, database)

PreviewFirst ==
    /\ nreq = 0
    /\ \E actor \in Actors, url \in RequestUrls, fetch \in FetchOutcomes,
          count \in CountResponses :
          Get(actor, url, fetch, count)

OneNext ==
    \/ ReceiveFirst
    \/ PreviewFirst
    \/ EnsureTable
    \/ InsertRecord
    \/ RefreshClear
    \/ RefreshStore
    \/ DropAndStart
    \/ Poll
    \/ Read
    \/ Write
    \/ Finalize
    \/ Complete
    \/ Catch

OneSpec == Init /\ [][OneNext]_vars

\* The same, with the handler's coroutine scheduled: the read it awaits in
\* its loop returns whatever the task does, and the task may never move.
PollSpec == Init /\ [][OneNext]_vars /\ WF_vars(Poll)

\* The imports of one dataset into an instance configured for the one
\* database data3.  The event loop runs every task that can run, so a started
\* task takes its next step.
LiveInit == Init /\ attached = DbNames /\ configured = "data3"

ReceiveOne == \E fetch \in FetchOutcomes, database \in PostedDatabases :
                 Post([present |-> TRUE, id |-> "root"], UrlOf(IdEdmonton), fetch,
                      CountGood, IdEdmonton, database)

LiveNext ==
    \/ ReceiveOne
    \/ EnsureTable
    \/ InsertRecord
    \/ RefreshClear
    \/ RefreshStore
    \/ DropAndStart
    \/ Poll
    \/ Read
    \/ Write
    \/ Finalize
    \/ Complete
    \/ Catch

LiveSpec == LiveInit /\ [][LiveNext]_vars /\ \A r \in Requests : WF_vars(TaskStep(r))

\* One POST of the root actor whose metadata request is answered with a
\* document of any dataset: nothing in lines 55-65 or 157-221 compares the
\* document's id field with the id parsed from the url.
ReceiveForeign ==
    /\ nreq = 0
    /\ \E id \in Ids, metadata_id \in Ids, database \in PostedDatabases :
          Post([present |-> TRUE, id |-> "root"], UrlOf(id), "ok", CountGood,
               metadata_id, database)

ForeignNext ==
    \/ ReceiveForeign
    \/ EnsureTable
    \/ InsertRecord
    \/ RefreshClear
    \/ RefreshStore
    \/ DropAndStart
    \/ Poll
    \/ Read
    \/ Write
    \/ Finalize
    \/ Complete
    \/ Catch

ForeignSpec == Init /\ [][ForeignNext]_vars

\* No request has been received: the instance as it is after startup with
\* every database attached.
NoImport ==
    /\ attached = DbNames
    /\ configured = NULL
    /\ dbs = [d \in DbNames |-> EmptyDb]
    /\ req = IdleRequest
    /\ nreq = 0
    /\ tasks = [r \in Requests |-> NoTask]
    /\ cache = BuiltMetadata(attached, dbs)

\* The type tracker on its own (lines 264, 270, 273): rows of two columns
\* whose values are an integer, a float, a text or empty go through
\* tracker.wrap in batches of up to BatchSize rows.
TrackerTokens == {"1", "2.5", "n/a", ""}
TrackerRows == {[id |-> a, height |-> b] : a \in TrackerTokens, b \in TrackerTokens}
TrackerBatches == UNION {[1..n -> TrackerRows] : n \in 1..BatchSize}

TrackerInit ==
    /\ NoImport
    /\ trial = [of |-> "tracker", rows |-> <<>>, tracker |-> NewTracker]

Wrap ==
    /\ \E batch \in TrackerBatches :
          /\ Len(trial.rows) + Len(batch) <= MaxObserved
          /\ trial' = [trial EXCEPT !.rows = @ \o batch,
                                    !.tracker = TrackerWrap(@, batch)]
    /\ UNCHANGED <<attached, configured, dbs, req, nreq, tasks, cache>>

TrackerNext == Wrap

TrackerSpec == TrackerInit /\ [][TrackerNext]_vars

\* The record parser on its own (lines 313-345), as the loop of line 266
\* drives it: an AsyncDictReader over a line source that delivers nothing, or
\* a first line that is not empty and up to MaxLines further lines, empty
\* ones and a repeated header line among them.  `async for` calls __anext__
\* until it raises StopAsyncIteration, and never again.
ReaderLines == {Header, DataLine(1, 1), DataLine(2, 2), EmptyLine}
ReaderInputs ==
    {<<>>} \cup UNION {{<<first>> \o rest : first \in ReaderLines \ {EmptyLine},
                                            rest \in [1..n -> ReaderLines]} : n \in 0..MaxLines}

ReaderInit ==
    /\ NoImport
    /\ \E input \in ReaderInputs :
          trial = [of |-> "reader", input |-> input, lines |-> input, reader |-> NewReader,
                   rows |-> <<>>, stopped |-> FALSE]

Pull ==
    /\ ~trial.stopped
    /\ LET n == Anext(trial.reader, trial.lines) IN
       trial' = IF n.stop
                THEN [trial EXCEPT !.stopped = TRUE, !.lines = n.lines]
                ELSE [trial EXCEPT !.reader = n.rd, !.lines = n.lines,
                                   !.rows = Append(@, n.row)]
    /\ UNCHANGED <<attached, configured, dbs, req, nreq, tasks, cache>>

ReaderNext == Pull

ReaderSpec == ReaderInit /\ [][ReaderNext]_vars /\ WF_vars(Pull)

\* The two derivations on their own: the target table's name from a dataset
\* id that is_valid_id accepts (line 225), then the page script of a view of
\* that table (lines 455-473).  The ids are the model's and every id of the
\* accepted shape over a letter and the underscore.
ShapedIds ==
    {id \in {a \o <<"-">> \o b : a \in [1..4 -> {"a", "_"}], b \in [1..4 -> {"a", "_"}]} :
        is_valid_id(id)}
AcceptedIds == Ids \cup ShapedIds

NameInit ==
    /\ NoImport
    /\ \E id \in AcceptedIds :
          trial = [of |-> "name", id |-> id, table |-> <<>>, view_name |-> NULL,
                   script |-> FALSE, dataset_id |-> <<>>]

NameTable ==
    /\ trial.table = <<>>
    /\ trial' = [trial EXCEPT !.table = TableName(trial.id)]
    /\ UNCHANGED <<attached, configured, dbs, req, nreq, tasks, cache>>

RenderPage ==
    /\ trial.table # <<>>
    /\ trial.view_name = NULL
    /\ \E view_name \in {"table", "row"} :
          LET out == extra_body_script(view_name, trial.table) IN
          trial' = [trial EXCEPT !.view_name = view_name, !.script = out.script,
                                 !.dataset_id = out.dataset_id]
    /\ UNCHANGED <<attached, configured, dbs, req, nreq, tasks, cache>>

NameNext ==
    \/ NameTable
    \/ RenderPage

NameSpec == NameInit /\ [][NameNext]_vars

\* ------------------------------------------------------------------- claims

\* The Import Record with the given key, in the database of that name.
RecordOf(d, key) == CHOOSE rec \in dbs[d].imports.rows : rec.id = key

\* The record the task of request r reports to has reached an outcome.
Terminal(r) ==
    /\ HasRecord(dbs[tasks[r].db], tasks[r].id)
    /\ LET rec == RecordOf(tasks[r].db, tasks[r].id) IN
       rec.error # NULL \/ rec.import_complete # NULL

\* C1: every started import ends, and when it ends its Import Record has
\* import_complete or error set: no task stays in the reading, writing or
\* finalizing steps for ever with both fields null.
C1_ImportReachesOutcome ==
    \A r \in Requests :
        (tasks[r].pc = "read") ~> (tasks[r].pc = "done" /\ Terminal(r))

\* C1 witness: an import has ended with its error recorded after a committed
\* batch, and a second import of the dataset has ended with its completion
\* stamped.
C1_Witness ==
    /\ tasks[1].pc = "done" /\ tasks[2].pc = "done"
    /\ tasks[1].solo /\ tasks[2].solo
    /\ RecordOf("data3", IdEdmonton).import_complete # NULL
    /\ RecordOf("data3", IdEdmonton).row_progress = MaxLines

\* Both outcome fields of the record with this key are set.
BothSet(D, d, key) ==
    \E rec \in D[d].imports.rows :
        rec.id = key /\ rec.error # NULL /\ rec.import_complete # NULL

\* C2 as stated: in every reachable state no Import Record has both error and
\* import_complete set, whatever the sequence of import triggers.
C2_NeverBothOutcomes ==
    \A d \in DbNames, key \in Ids : ~BothSet(dbs, d, key)

\* C2 amended: a step sets both outcome fields of an Import Record only if it
\* is taken by a task whose import overlapped another import of the same
\* dataset; imports of a dataset that follow one another, each triggered
\* after the previous task ended, leave at most one of the two fields set.
C2_BothOutcomesOnlyByOverlap ==
    [][\A d \in DbNames, key \in Ids :
          (BothSet(dbs', d, key) /\ ~BothSet(dbs, d, key))
          => \E r \in Requests :
                /\ tasks[r].pc \in {"complete", "catch"}
                /\ tasks'[r].pc = "done"
                /\ tasks[r].db = d /\ tasks[r].id = key
                /\ ~tasks[r].solo]_vars

\* C2 witness: a dataset was imported and, after that task had ended,
\* imported again into the same database; the record shows the completion
\* and no error.
C2_Witness ==
    /\ tasks[1].pc = "done" /\ tasks[2].pc = "done"
    /\ tasks[1].solo /\ tasks[2].solo
    /\ tasks[1].id = tasks[2].id /\ tasks[1].db = tasks[2].db
    /\ RecordOf(tasks[2].db, tasks[2].id).import_complete # NULL
    /\ RecordOf(tasks[2].db, tasks[2].id).error = NULL

\* The counter of the record with this key, -1 when there is no such record.
Progress(D, d, key) ==
    IF \E rec \in D[d].imports.rows : rec.id = key
    THEN (CHOOSE rec \in D[d].imports.rows : rec.id = key).row_progress
    ELSE -1

Rows(D, d, id) == D[d].tables[TableName(id)].rows

Record(r, i) == [id |-> Digits[i], species |-> Species[r], height |-> Height(r, i)]
Records(r, n) == [i \in 1..n |-> Record(r, i)]

\* Request r's task stamps its completion in this step.
Completes(r) == tasks[r].pc = "complete" /\ tasks'[r].pc = "done"

\* Request r's task leaves its except branch in this step.
Catches(r) == tasks[r].pc = "catch" /\ tasks'[r].pc # "catch"

\* C4: when an import completes, the target table holds exactly the records
\* of the N data lines the stream delivered before its end, in stream order,
\* each mapping the header's fields to the line's values; the header is no
\* record.
C4_TableHoldsTheStream ==
    [][\A r \in Requests :
          (Completes(r) /\ tasks[r].solo)
          => Rows(dbs', tasks[r].db, tasks[r].id) = Records(r, tasks[r].pulled)]_vars

\* C4 witness: an import of MaxLines data lines, more than one batch, has
\* completed.
C4_Witness ==
    \E r \in Requests :
        /\ tasks[r].pc = "done" /\ tasks[r].solo
        /\ RecordOf(tasks[r].db, tasks[r].id).import_complete # NULL
        /\ Rows(dbs, tasks[r].db, tasks[r].id) = Records(r, MaxLines)
        /\ MaxLines > BatchSize

\* Number of write_batch calls that N rows take.
Batches(n) == (n + BatchSize - 1) \div BatchSize

\* C5: when an import completes, row_progress equals the number of data
\* lines streamed: write_batch was called once per full batch and once for a
\* non-empty final partial batch, never with an empty batch.
C5_ProgressIsLineCount ==
    [][\A r \in Requests :
          /\ (Completes(r) /\ tasks[r].solo)
             => /\ Progress(dbs', tasks[r].db, tasks[r].id) = tasks[r].pulled
                /\ tasks[r].writes = Batches(tasks[r].pulled)
          /\ tasks'[r].pc = "write"
             => /\ tasks'[r].batch # <<>>
                /\ Len(tasks'[r].batch) <= BatchSize
                /\ (~tasks'[r].final => Len(tasks'[r].batch) = BatchSize)]_vars

\* C5 witness: a completed import whose last batch was a partial one.
C5_Witness ==
    \E r \in Requests :
        /\ tasks[r].pc = "done" /\ tasks[r].solo
        /\ RecordOf(tasks[r].db, tasks[r].id).import_complete # NULL
        /\ Progress(dbs, tasks[r].db, tasks[r].id) = BatchSize + 1

\* The exceptions that arise while the rows are streamed and written.
StreamingErrors == {ErrStream, ErrDiskSpace, ErrWrite}

\* C6: when the stream or a batch write raises after K batches were
\* committed, the record ends with row_progress = K * BatchSize, error set
\* to the exception's message and import_complete null, the target table
\* keeps the rows of the K batches, and the ended task changes nothing more.
C6_ErrorAfterKBatches ==
    [][\A r \in Requests :
          /\ (Catches(r) /\ tasks[r].solo /\ tasks[r].error \in StreamingErrors)
             => /\ tasks'[r].pc = "done"
                /\ Progress(dbs', tasks[r].db, tasks[r].id) = tasks[r].writes * BatchSize
                /\ RecordOf(tasks[r].db, tasks[r].id)'.error = tasks[r].error
                /\ RecordOf(tasks[r].db, tasks[r].id)'.import_complete = NULL
                /\ Rows(dbs', tasks[r].db, tasks[r].id)
                      = Records(r, tasks[r].writes * BatchSize)
          /\ tasks[r].pc \in {"done", "crashed"} => tasks'[r] = tasks[r]]_vars

\* C6 witness: a stream raised in the second batch; one batch is committed
\* and the error is recorded.
C6_Witness ==
    \E r \in Requests :
        /\ tasks[r].pc = "done" /\ tasks[r].solo
        /\ RecordOf(tasks[r].db, tasks[r].id).error = ErrStream
        /\ RecordOf(tasks[r].db, tasks[r].id).import_complete = NULL
        /\ Progress(dbs, tasks[r].db, tasks[r].id) = BatchSize
        /\ Rows(dbs, tasks[r].db, tasks[r].id) = Records(r, BatchSize)

\* C7: a write_batch call that finds the disk space low writes nothing, and
\* the import ends with the batches written before it (k - 1 for the k-th
\* call), the error "Disk space is running low" and no completion; when the
\* first call finds it low the target table does not exist.
C7_DiskGuard ==
    [][\A r \in Requests :
          /\ (tasks[r].pc = "write" /\ tasks'[r].pc = "catch"
                 /\ tasks'[r].error = ErrDiskSpace)
             => dbs' = dbs
          /\ (Catches(r) /\ tasks[r].solo /\ tasks[r].error = ErrDiskSpace)
             => /\ RecordOf(tasks[r].db, tasks[r].id)'.error = ErrDiskSpace
                /\ RecordOf(tasks[r].db, tasks[r].id)'.import_complete = NULL
                /\ Len(Rows(dbs', tasks[r].db, tasks[r].id)) = tasks[r].writes * BatchSize
                /\ Progress(dbs', tasks[r].db, tasks[r].id) = tasks[r].writes * BatchSize
                /\ (tasks[r].writes = 0
                       => ~dbs'[tasks[r].db].tables[tasks[r].table_name].exists)]_vars

\* C7 witness: the guard reported low space before the first batch; the
\* error is recorded and there is no target table.
C7_Witness ==
    \E r \in Requests :
        /\ tasks[r].pc = "done" /\ tasks[r].solo
        /\ RecordOf(tasks[r].db, tasks[r].id).error = ErrDiskSpace
        /\ Progress(dbs, tasks[r].db, tasks[r].id) = 0
        /\ ~dbs[tasks[r].db].tables[tasks[r].table_name].exists

\* Every row of the table comes from the stream of request r.
OnlyRowsOf(D, r) ==
    \A i \in 1..Len(Rows(D, tasks[r].db, tasks[r].id)) :
        Rows(D, tasks[r].db, tasks[r].id)[i].species = Species[r]

\* The handler has not started its task before it has dropped the table.
StartsAfterDrop ==
    req.pc \in {"ensure_table", "insert", "refresh", "refreshing", "drop"}
    => tasks[nreq].pc = "none"

\* No later request has started an import of the dataset of request r.
Newest(r) ==
    \A q \in Requests :
        (q > r /\ tasks[q].pc # "none")
        => (tasks[q].db # tasks[r].db \/ tasks[q].id # tasks[r].id)

\* C8 as stated: the task starts only after the drop, and when the newest
\* import of a dataset completes, the target table holds only rows of that
\* import's stream and none of an earlier import.
C8_NoResidualRows ==
    [][/\ StartsAfterDrop'
       /\ \A r \in Requests : (Completes(r) /\ Newest(r)) => OnlyRowsOf(dbs', r)]_vars

\* C8 amended: the task starts only after the drop, and when an import
\* completes that did not overlap another import of the same dataset (none
\* was running when it was triggered, none was triggered while it ran), the
\* target table holds only rows of that import's stream.
C8_NoResidualRowsUnlessOverlap ==
    [][/\ StartsAfterDrop'
       /\ \A r \in Requests : (Completes(r) /\ tasks[r].solo) => OnlyRowsOf(dbs', r)]_vars

\* C8 witness: a dataset imported with rows, then imported again after the
\* first task ended; the table holds the second stream's rows only.
C8_Witness ==
    /\ tasks[1].pc = "done" /\ tasks[2].pc = "done"
    /\ tasks[1].solo /\ tasks[2].solo
    /\ tasks[1].id = tasks[2].id /\ tasks[1].db = tasks[2].db
    /\ RecordOf(tasks[2].db, tasks[2].id).import_complete # NULL
    /\ Rows(dbs, tasks[2].db, tasks[2].id) = Records(2, 1)

\* C9: the insert at the start of an import leaves exactly one record for
\* the dataset id, with row_progress 0, error null and import_complete null,
\* whatever the record held before.
C9_FreshRecord ==
    [][(req.pc = "insert" /\ req'.pc = "refresh")
          => LET mine == {rec \in dbs'[req.db].imports.rows : rec.id = req.metadata_id}
             IN  /\ Cardinality(mine) = 1
                 /\ \A rec \in mine :
                       /\ rec.row_progress = 0
                       /\ rec.error = NULL
                       /\ rec.import_complete = NULL]_vars

\* C9 witness: the record of a completed import with rows has just been
\* replaced by the start of a second import of the dataset.
C9_Witness ==
    /\ req.pc = "drop" /\ nreq = 2
    /\ tasks[1].pc = "done" /\ tasks[1].id = req.id /\ tasks[1].db = req.db
    /\ Len(Rows(dbs, req.db, req.id)) = MaxLines
    /\ dbs[req.db].tables[TableName(req.id)].transformed
    /\ Progress(dbs, req.db, req.id) = 0

\* The messages of the checks a POST can fail in.
CheckErrors ==
    {"Missing domain", "Last element of path was not a valid ID",
     ErrNotFound, ErrHttp, ErrNoDatabases, ErrConfigured, ErrPick}

\* C10: a POST that fails in its checks (URL, metadata, no eligible
\* database, no database picked) answers with its error and changes no
\* database and starts no task, and the handler is through with it.
C10_SyncErrorChangesNothing ==
    [][(nreq' = nreq + 1 /\ req'.method = "POST" /\ req'.response.error \in CheckErrors)
          => /\ dbs' = dbs
             /\ tasks' = tasks
             /\ req'.pc = "idle"
             /\ req'.response.status \in {200, 400}]_vars

\* C10 witness: after an import has written its record and rows, a second
\* POST has been refused for want of a picked database.
C10_Witness ==
    /\ nreq = 2 /\ req.pc = "idle" /\ req.method = "POST"
    /\ req.response.error = ErrPick
    /\ \E d \in DbNames : dbs[d].imports.rows # {}

\* C11: the POST that started an import does not wait for it and gets no
\* ingestion error: the handler looks for the target table at most PollLimit
\* times and then answers with a redirect, to the table if it saw it and to
\* the database page otherwise, whether the task runs, has completed or has
\* failed, and even if the task never takes another step.
C11_HandlerNeverWaits ==
    /\ [](req.i <= PollLimit)
    /\ [][(req.pc = "poll" /\ req'.pc = "idle")
            => /\ req'.response.status = 302
               /\ req'.response.error = NULL
               /\ req'.response.location
                     = (IF dbs[req.db].tables[TableName(req.id)].exists
                        THEN "table" ELSE "database")
               /\ (req'.response.location = "database" => req'.i = PollLimit)
               /\ tasks' = tasks /\ dbs' = dbs]_vars
    /\ (req.pc = "poll") ~> (req.pc = "idle" /\ req.response.status = 302)

\* C11 witness: the handler has answered with the redirect to the database
\* page, and the task it started has failed and recorded its error.
C11_Witness ==
    /\ req.pc = "idle" /\ req.response.status = 302
    /\ req.response.location = "database" /\ req.response.error = NULL
    /\ tasks[1].pc = "done"
    /\ RecordOf(tasks[1].db, tasks[1].id).error = ErrDiskSpace

\* C12: a request of an actor other than root, or of no actor, is answered
\* with 403 before any metadata or count request, database write, table drop
\* or task start, and the handler is through with it; a request of the root
\* actor is not answered with 403, and only such a request goes on to write.
C12_PermissionGate ==
    /\ [][nreq' = nreq + 1
            => IF req'.actor.present /\ req'.actor.id = "root"
               THEN req'.response.status # 403
               ELSE /\ req'.response.status = 403
                    /\ req'.response.error = ErrForbidden
                    /\ req'.calls = {}
                    /\ req'.pc = "idle"
                    /\ dbs' = dbs /\ tasks' = tasks]_vars
    /\ [](req.pc # "idle" => (req.actor.present /\ req.actor.id = "root"))
    /\ []((nreq = 1 /\ ~(req.actor.present /\ req.actor.id = "root"))
            => /\ dbs = [d \in DbNames |-> EmptyDb]
               /\ \A r \in Requests : tasks[r].pc = "none")

\* C12 witness: a POST of an actor who is not root, naming a dataset that
\* could be imported, has been answered with 403.
C12_Witness ==
    /\ nreq = 1 /\ req.method = "POST"
    /\ req.actor.present /\ req.actor.id = "alice"
    /\ req.response.status = 403
    /\ EligibleDatabases # {} /\ configured = NULL

\* The request just received comes from the root actor.
FromRoot == req'.actor.present /\ req'.actor.id = "root"

\* Of the attached databases, those that are writable files in WAL mode.
WalWritable == attached \cap {"data2", "data3"}

\* The instance admits no import: nothing eligible and nothing configured,
\* or a configured database that is not eligible.
NotAdmitted ==
    \/ WalWritable = {} /\ configured = NULL
    \/ configured # NULL /\ configured \notin WalWritable

\* C13: the eligible databases are the attached ones that are mutable, not
\* _internal and in WAL mode; when none is eligible and none configured, or
\* the configured one is not eligible, a GET and a POST alike are answered
\* with status 400 and the matching message, with no metadata or count
\* request and no write; otherwise neither message is the answer.
C13_Admission ==
    /\ [](EligibleDatabases = WalWritable)
    /\ [][(nreq' = nreq + 1 /\ FromRoot)
            => IF NotAdmitted
               THEN /\ req'.response.status = 400
                    /\ req'.response.error
                          = (IF configured = NULL THEN ErrNoDatabases ELSE ErrConfigured)
                    /\ req'.calls = {}
                    /\ req'.pc = "idle"
                    /\ dbs' = dbs /\ tasks' = tasks
               ELSE req'.response.error \notin {ErrNoDatabases, ErrConfigured}]_vars

\* C13 witness: with two WAL databases attached and the plugin configured
\* for the immutable one, a GET of root has been answered with 400.
C13_Witness ==
    /\ nreq = 1 /\ req.method = "GET"
    /\ req.actor.present /\ req.actor.id = "root"
    /\ configured = "frozen" /\ attached = DbNames
    /\ req.response.status = 400 /\ req.response.error = ErrConfigured

\* The root actor.
Root == [present |-> TRUE, id |-> "root"]

\* C14: a POST that passes the checks uses the one eligible or configured
\* database if there is exactly one, whatever it names; with several
\* eligible it uses the one it names and fails with "You need to pick a
\* database." if it names none of them.  The handler and the task write to
\* the selected database only: no step changes another database.
C14_DatabaseSelection ==
    /\ [][\A url \in {UrlOf(id) : id \in Ids}, database \in PostedDatabases :
             (Post(Root, url, "ok", CountGood, parse_url(url).id, database) /\ ~NotAdmitted)
             => IF configured # NULL
                THEN req'.pc = "ensure_table" /\ req'.db = configured
                ELSE IF Cardinality(WalWritable) = 1
                THEN req'.pc = "ensure_table" /\ req'.db \in WalWritable
                ELSE IF database \in WalWritable
                THEN req'.pc = "ensure_table" /\ req'.db = database
                ELSE /\ req'.pc = "idle"
                     /\ req'.response.status = 400
                     /\ req'.response.error = ErrPick]_vars
    /\ [][(req.pc # "idle" => req'.db = req.db)
          /\ (\A r \in Requests :
                 (tasks[r].pc = "none" /\ tasks'[r].pc # "none") => tasks'[r].db = req.db)
          /\ (\A d \in DbNames :
                 dbs'[d] # dbs[d]
                 => \/ req.pc \in {"ensure_table", "insert", "drop"} /\ req.db = d
                    \/ \E q \in Requests :
                          Running(tasks[q]) /\ tasks[q].db = d /\ tasks'[q] # tasks[q])]_vars

\* C14 witness: with data2 and data3 eligible and none configured, a POST
\* naming data3 has imported into data3; data2 is as it was.
C14_Witness ==
    /\ attached = DbNames /\ configured = NULL
    /\ tasks[1].pc = "done" /\ tasks[1].db = "data3"
    /\ RecordOf("data3", tasks[1].id).import_complete # NULL
    /\ dbs["data3"].tables[tasks[1].table_name].exists
    /\ dbs["data2"] = EmptyDb

\* C15: in every state of a running import the poll by dataset id answers
\* with one row, whose row_progress counts the rows committed so far and
\* whose error is null; the answer after a batch commit includes that batch;
\* the row_count is the one the import started with, which no later step of
\* the import changes.
C15_ProgressVisible ==
    /\ [](\A r \in Requests :
            (Running(tasks[r]) /\ tasks[r].solo)
            => /\ Cardinality(PollRows(dbs, tasks[r].db, tasks[r].id)) = 1
               /\ \A row \in PollRows(dbs, tasks[r].db, tasks[r].id) :
                     /\ row.row_progress = Len(Rows(dbs, tasks[r].db, tasks[r].id))
                     /\ row.error = NULL)
    /\ [][\A r \in Requests :
             (tasks'[r].writes = tasks[r].writes + 1 /\ tasks[r].solo)
             => \A row \in PollRows(dbs', tasks[r].db, tasks[r].id) :
                   row.row_progress
                      = tasks[r].writes * BatchSize + Len(tasks[r].batch)]_vars
    /\ [][(req.pc = "insert" /\ req'.pc = "refresh")
            => \A row \in PollRows(dbs', req.db, req.id) :
                  row.row_count = req.row_count]_vars
    /\ [][\A d \in DbNames, id \in Ids :
             (req.pc # "insert" /\ PollRows(dbs, d, id) # {})
             => {row.row_count : row \in PollRows(dbs', d, id)}
                   = {row.row_count : row \in PollRows(dbs, d, id)}]_vars

\* C15 witness: an import is between its first and its second batch; the
\* poll shows the first batch, the expected count of the count request and
\* no error.
C15_Witness ==
    \E r \in Requests :
        /\ tasks[r].pc = "write" /\ tasks[r].writes = 1 /\ tasks[r].solo
        /\ PollRows(dbs, tasks[r].db, tasks[r].id)
              = {[row_count |-> 2, row_progress |-> BatchSize, error |-> NULL]}

\* The values of a column in these rows.
ColumnValues(rows, c) == {rows[i][c] : i \in 1..Len(rows)}

\* Request r's task rewrites the column types in this step.
Rewrites(r) == tasks[r].pc = "transform" /\ tasks'[r].pc = "complete"

\* C16: the types the table is rewritten to come from the one tracker of
\* the whole import: a column all of whose values, in every batch, parse as
\* integers becomes integer, and a column with a value in any batch that is
\* no number becomes text, however the rows fell into batches; id becomes
\* integer and species text.
C16_TypesOfWholeStream ==
    [][\A r \in Requests :
          (Rewrites(r) /\ tasks[r].solo)
          => LET rows  == Rows(dbs', tasks[r].db, tasks[r].id)
                 types == dbs'[tasks[r].db].tables[tasks[r].table_name].types
             IN  /\ DOMAIN types = Range(Header)
                 /\ \A c \in DOMAIN types :
                       /\ ColumnValues(rows, c) \subseteq IntegerTokens
                             => types[c] = "integer"
                       /\ ColumnValues(rows, c) \ FloatTokens # {}
                             => types[c] = "text"
                 /\ types["id"] = "integer"
                 /\ types["species"] = "text"]_vars

\* C16 witness: an import of more than one batch has been rewritten; the
\* height column, whose only non-numeric value came in the first batch, is
\* text, id is integer and species is text.
C16_Witness ==
    \E r \in Requests :
        /\ tasks[r].pc = "complete" /\ tasks[r].solo
        /\ tasks[r].writes > 1
        /\ Rows(dbs, tasks[r].db, tasks[r].id) = Records(r, MaxLines)
        /\ dbs[tasks[r].db].tables[tasks[r].table_name].types
              = [c \in Range(Header) |->
                    IF c = "id" THEN "integer" ELSE "text"]

\* C17 as stated: whatever the count request comes to (a well-formed count,
\* another body, another status, an error of the transport), a request that
\* has called the row-count probe goes on and does not die of it.
C17_ProbeNeverFailsCaller ==
    [][(nreq' = nreq + 1 /\ "count" \in req'.calls)
          => req'.response.status # 500]_vars

\* C18: a GET with a url that has no domain, or whose last path element is
\* no valid id, is answered with the parse error before any HTTP request; a
\* metadata answer other than 200 gives "Dataset not found" and an error of
\* the transport "HTTP error fetching metadata for dataset"; each of these
\* answers has status 200 and the row-count probe has not been called.
C18_PreviewErrors ==
    [][\A url \in Urls, fetch \in FetchOutcomes, count \in CountResponses :
          (Get(Root, url, fetch, count) /\ ~NotAdmitted)
          => IF url = UrlNoDomain
             THEN /\ req'.response.status = 200 /\ req'.calls = {}
                  /\ req'.response.error = "Missing domain"
             ELSE IF url = UrlBadId
             THEN /\ req'.response.status = 200 /\ req'.calls = {}
                  /\ req'.response.error = "Last element of path was not a valid ID"
             ELSE IF fetch = "notfound"
             THEN /\ req'.response.status = 200 /\ req'.calls = {"metadata"}
                  /\ req'.response.error = ErrNotFound
             ELSE IF fetch = "httperror"
             THEN /\ req'.response.status = 200 /\ req'.calls = {"metadata"}
                  /\ req'.response.error = ErrHttp
             ELSE /\ req'.calls = {"metadata", "count"}
                  /\ req'.response.error \notin CheckErrors]_vars

\* C18 witness: a GET naming a dataset has been answered with status 200 and
\* the transport error, after the metadata request and no other.
C18_Witness ==
    /\ nreq = 1 /\ req.method = "GET" /\ req.pc = "idle"
    /\ req.response.status = 200 /\ req.response.error = ErrHttp
    /\ req.calls = {"metadata"}

\* A later import of the dataset of request r has started: its record has
\* been inserted.
Restarted(r) ==
    \/ \E q \in Requests :
          /\ q > r /\ tasks[q].pc # "none"
          /\ tasks[q].db = tasks[r].db /\ tasks[q].id = tasks[r].id
    \/ /\ nreq > r /\ req.pc \in {"refresh", "refreshing", "drop"}
       /\ req.db = tasks[r].db /\ req.id = tasks[r].id

\* The import of request r has started its task and no later import of its
\* dataset has started or overlapped it.
Current(r) == tasks[r].pc # "none" /\ tasks[r].solo /\ ~Restarted(r)

TableOf(D, r) == D[tasks[r].db].tables[tasks[r].table_name]

\* C20: the column types are rewritten only after every batch, the final
\* partial one included, has been committed, and import_complete is stamped
\* only after the rewrite has succeeded: when it is stamped, and whenever it
\* is non-null, row_progress is the number of records of the stream and the
\* table has the tracker's final types; when the rewrite fails the import
\* ends with its error recorded and import_complete null.
C20_FinalizationOrder ==
    /\ [][\A r \in Requests :
             /\ (Rewrites(r) /\ tasks[r].solo)
                => /\ tasks[r].final /\ tasks[r].batch = <<>>
                   /\ Progress(dbs, tasks[r].db, tasks[r].id) = tasks[r].pulled
                   /\ Rows(dbs, tasks[r].db, tasks[r].id) = Records(r, tasks[r].pulled)
                   /\ RecordOf(tasks[r].db, tasks[r].id).import_complete = NULL
             /\ (Completes(r) /\ tasks[r].solo)
                => /\ TableOf(dbs, r).transformed
                   /\ TableOf(dbs, r).types = TrackerTypes(tasks[r].tracker)
                   /\ TableOf(dbs', r) = TableOf(dbs, r)
                   /\ Progress(dbs', tasks[r].db, tasks[r].id) = tasks[r].pulled
                   /\ RecordOf(tasks[r].db, tasks[r].id)'.import_complete # NULL
             /\ (Catches(r) /\ tasks[r].solo /\ tasks[r].error \in {ErrTransform, ErrNoTransform})
                => /\ tasks'[r].pc = "done"
                   /\ RecordOf(tasks[r].db, tasks[r].id)'.error = tasks[r].error
                   /\ RecordOf(tasks[r].db, tasks[r].id)'.import_complete = NULL
                   /\ ~TableOf(dbs', r).transformed]_vars
    /\ [](\A r \in Requests :
            (tasks[r].pc # "none" /\ tasks[r].solo /\ ~Restarted(r)
                /\ RecordOf(tasks[r].db, tasks[r].id).import_complete # NULL)
            => /\ TableOf(dbs, r).transformed
               /\ Progress(dbs, tasks[r].db, tasks[r].id)
                     = Len(Rows(dbs, tasks[r].db, tasks[r].id)))

\* C20 witness: every batch of an import was committed and the rewrite then
\* failed; the import has ended with the error recorded, no completion and
\* the table not rewritten.
C20_Witness ==
    \E r \in Requests :
        /\ tasks[r].pc = "done" /\ tasks[r].solo
        /\ RecordOf(tasks[r].db, tasks[r].id).error = ErrTransform
        /\ RecordOf(tasks[r].db, tasks[r].id).import_complete = NULL
        /\ Progress(dbs, tasks[r].db, tasks[r].id) = MaxLines
        /\ ~TableOf(dbs, r).transformed

\* How wide a classification is: integer, then float, then text.
Rank(type) == IF type = "integer" THEN 0 ELSE IF type = "float" THEN 1 ELSE 2

\* The types the tracker reports after the first k of the rows.
TypesAfter(rows, k) == TrackerTypes(WrapRows(NewTracker, SubSeq(rows, 1, k)))

\* C21: the classification of a column only widens (integer, float, text):
\* no batch that goes through the tracker makes a column's type more
\* specific than it was, and the type after a sequence of rows is never
\* more specific than the type after any prefix of that sequence.
C21_TypesOnlyWiden ==
    /\ [][\A c \in DOMAIN trial.tracker :
             /\ c \in DOMAIN trial'.tracker
             /\ Rank(guessed_type(trial'.tracker[c]))
                   >= Rank(guessed_type(trial.tracker[c]))]_vars
    /\ [](\A k \in 0..Len(trial.rows) :
             \A c \in DOMAIN TypesAfter(trial.rows, k) :
                 Rank(TrackerTypes(trial.tracker)[c])
                    >= Rank(TypesAfter(trial.rows, k)[c]))

\* C21 witness: the height column has gone from integer to float to text,
\* and the id column, text from its first value, has seen integers since
\* and is still text.
C21_Witness ==
    /\ trial.rows = <<[id |-> "n/a", height |-> "1"], [id |-> "1", height |-> "2.5"],
                      [id |-> "1", height |-> "n/a"]>>
    /\ TypesAfter(trial.rows, 1) = [id |-> "text", height |-> "integer"]
    /\ TypesAfter(trial.rows, 2) = [id |-> "text", height |-> "float"]
    /\ TrackerTypes(trial.tracker) = [id |-> "text", height |-> "text"]

\* The lines of an input after its first, up to the first empty one.
RecordLines(input) ==
    LET body == IF input = <<>> THEN <<>> ELSE Tail(input)
        stop == IF \E i \in 1..Len(body) : body[i] = EmptyLine
                THEN CHOOSE i \in 1..Len(body) :
                         /\ body[i] = EmptyLine
                         /\ \A j \in 1..(i - 1) : body[j] # EmptyLine
                ELSE Len(body) + 1
    IN  SubSeq(body, 1, stop - 1)

\* C22: the reader takes the first line as the header, once, and emits no
\* record for it; each call emits at most one record; the records emitted
\* are, in order, those of the non-empty lines that follow the header; the
\* sequence ends, without an error, at the first empty line or when the
\* lines run out, and it then holds exactly the records of the lines between
\* the header and that point: no line after an empty line gives a record.
C22_ReaderSequencing ==
    /\ [](/\ Len(trial.rows) <= Len(RecordLines(trial.input))
          /\ \A i \in 1..Len(trial.rows) :
                trial.rows[i] = DictRow(trial.input[1], RecordLines(trial.input)[i]))
    /\ []((trial.rows # <<>>)
             => /\ Len(trial.input) - Len(trial.lines) = 1 + Len(trial.rows)
                /\ trial.reader.fieldnames = trial.input[1])
    /\ [](trial.stopped => Len(trial.rows) = Len(RecordLines(trial.input)))
    /\ [][Len(trial'.rows) <= Len(trial.rows) + 1]_vars
    /\ <>trial.stopped

\* C22 witness: of a header, a line, an empty line and another line the
\* reader has emitted the record of the first line and has stopped.
C22_Witness ==
    /\ trial.input = <<Header, DataLine(1, 1), EmptyLine, DataLine(2, 2)>>
    /\ trial.stopped
    /\ trial.rows = <<DictRow(Header, DataLine(1, 1))>>

\* The tables a mapping gives metadata for: what Datasette shows of it.
MetadataTables(metadata) ==
    IF "databases" \in metadata.keys
    THEN UNION {{<<d, t>> : t \in metadata.databases[d]} : d \in DOMAIN metadata.databases}
    ELSE {}

\* C23: a reader of the metadata that runs while a refresh is under way
\* finds the tables of the mapping from before the refresh or those of the
\* complete mapping after it: the refresh's first step leaves one of the
\* two to be read, and its last step stores the mapping of what the
\* databases hold.
C23_MetadataSnapshot ==
    /\ [][(req.pc = "refresh" /\ req'.pc = "refreshing")
            => MetadataTables(get_metadata')
                 \in {MetadataTables(get_metadata),
                      MetadataTables(BuiltMetadata(attached, dbs'))}]_vars
    /\ [][(req.pc = "refreshing" /\ req'.pc = "drop")
            => get_metadata' = BuiltMetadata(attached, dbs')]_vars

\* Distinct valid ids have distinct target tables.
DistinctTables ==
    \A a \in AcceptedIds, b \in AcceptedIds :
        a # b => TableName(a) # TableName(b)

\* This step leaves the target table and the Import Record of the dataset
\* as they are, in database d.
Untouched(d, id) ==
    /\ dbs'[d].tables[TableName(id)] = dbs[d].tables[TableName(id)]
    /\ {rec \in dbs'[d].imports.rows : rec.id = id}
          = {rec \in dbs[d].imports.rows : rec.id = id}

C25_RecordKeyConsistent ==
    /\ [][(req.pc = "insert" /\ req'.pc = "refresh")
            => /\ req.metadata_id = req.id
               /\ HasRecord(dbs'[req.db], req.id)]_vars
    /\ [][\A r \in Requests :
             (tasks[r].pc = "write" /\ tasks'[r].writes = tasks[r].writes + 1)
             => /\ HasRecord(dbs[tasks[r].db], tasks[r].id)
                /\ Progress(dbs', tasks[r].db, tasks[r].id)
                      = Progress(dbs, tasks[r].db, tasks[r].id) + Len(tasks[r].batch)]_vars
    /\ [](\A r \in Requests : tasks[r].pc # "crashed")

\* The end of an import whose metadata document named another dataset: rows
\* were committed, the task has died in its except branch, and the record
\* the import inserted still shows no progress, no error and no completion.
StrandedImport ==
    \E r \in Requests :
        /\ tasks[r].pc = "crashed"
        /\ Len(Rows(dbs, tasks[r].db, tasks[r].id)) = MaxLines
        /\ ~HasRecord(dbs[tasks[r].db], tasks[r].id)
        /\ \E rec \in dbs[tasks[r].db].imports.rows :
              /\ rec.row_progress = 0 /\ rec.error = NULL /\ rec.import_complete = NULL

\* C26: for every dataset id that is_valid_id accepts, the page of the
\* table named after the id carries the progress script, and the id the
\* script polls for, derived back from the table's name, is the id the
\* table was named after.
C26_IdRoundTrip ==
    (trial.view_name = "table")
    => (trial.script /\ trial.dataset_id = trial.id)

\* The round trip of an id without an underscore: the script polls for it.
RoundTripKept ==
    /\ trial.id = IdEdmonton /\ trial.view_name = "table"
    /\ trial.script /\ trial.dataset_id = IdEdmonton

\* The round trip of an id with an underscore: the id derived back has two
\* hyphens, is_valid_id rejects it, and the page carries no script.
RoundTripLost ==
    /\ trial.id = IdOther /\ trial.view_name = "table"
    /\ ~trial.script
    /\ Replace(Remove(trial.table, SocrataPrefix), "_", "-")
          = <<"a", "b", "-", "c", "-", "d", "j", "8", "v">>

====
